---- MODULE Spec2Model ----
(***************************************************************************)
(* Model of the two belief integrators of precisionlocked:                 *)
(*   src/active_inference_agent.py  (class ActiveInferenceAgent, "kernel") *)
(*   src/src/trauma_agent.py        (class ActiveInferenceAgent, "trauma") *)
(*                                                                         *)
(* Numbers.  The code computes on Python floats.  Here a belief-valued     *)
(* quantity (mu, eta, an observation, a prediction error, a gradient) is   *)
(* a decimal fixed-point number: the integer v stands for v / Unit.        *)
(* A parameter (a precision, a time step, beta) is an exact rational       *)
(* [n |-> numerator, d |-> denominator > 0] in lowest terms.  Every        *)
(* product of a parameter and a belief-valued quantity is rounded to the   *)
(* nearest multiple of 1/Unit, ties to even, as a float product is rounded *)
(* to the nearest representable value.                                     *)
(***************************************************************************)
EXTENDS Integers, Sequences, FiniteSets, TLC

VARIABLES module, agent, call, ret, updates

vars == <<module, agent, call, ret, updates>>

(***************************************************************************)
(* Bounds of the model.                                                    *)
(***************************************************************************)
\* resolution of a belief-valued quantity: v stands for v / Unit
Unit == 100000
\* largest magnitude of a product the arithmetic is asked to form
MaxProd == 1000000000
\* update calls explored per run by the free harness
MaxUpdates == 2
\* integration steps of one trauma update_belief call in the free harness
MaxSteps == 2
\* update calls of one round of the scenario driver on the kernel agent
RoundSteps == 100

(***************************************************************************)
(* Arithmetic.                                                             *)
(***************************************************************************)
Abs(x) == IF x < 0 THEN -x ELSE x

RECURSIVE GCD(_, _)
GCD(a, b) == IF b = 0 THEN a ELSE GCD(b, a % b)

\* the rational n/d (d # 0) in lowest terms with a positive denominator
Rat(n, d) ==
    LET g == GCD(Abs(n), Abs(d))
        s == IF d < 0 THEN -1 ELSE 1
    IN  [n |-> s * (n \div g), d |-> s * (d \div g)]

RatAdd(p, q) == Rat(p.n * q.d + q.n * p.d, p.d * q.d)

RatMul(p, q) == Rat(p.n * q.n, p.d * q.d)

\* p / q for q # 0
RatDiv(p, q) == Rat(p.n * q.d, p.d * q.n)

RatLess(p, q) == p.n * q.d < q.n * p.d

RatLeq(p, q) == p.n * q.d <= q.n * p.d

\* a / d (d > 0) rounded to the nearest integer, ties to even
RoundDiv(a, d) ==
    LET q == a \div d
        r == a % d
    IN  IF 2 * r < d THEN q
        ELSE IF 2 * r > d THEN q + 1
        ELSE IF q % 2 = 0 THEN q ELSE q + 1

\* the float product p * x of a parameter and a belief-valued quantity
Mul(p, x) == RoundDiv(p.n * x, p.d)

\* the decimal n/d as a belief-valued quantity
Dec(n, d) == (n * Unit) \div d

\* the product p * x can be formed
Fits(p, x) == IF p.n = 0 THEN TRUE ELSE Abs(x) <= MaxProd \div Abs(p.n)

(***************************************************************************)
(* Outcome of a call: the exception it raised ("none" if it returned) and  *)
(* the value it returned (<<>> for None, <<v>> for the value v).           *)
(***************************************************************************)
Returned(v) == [exc |-> "none", value |-> v]

Raised(e) == [exc |-> e, value |-> <<>>]

None == <<>>

(***************************************************************************)
(* src/active_inference_agent.py                                           *)
(***************************************************************************)
\* ActiveInferenceAgent.__init__: the attributes of the new instance
__init__(prior_mean, prior_precision_val, sensory_precision_val, time_step) ==
    [mu              |-> prior_mean,
     eta             |-> prior_mean,
     pi_prior_base   |-> prior_precision_val,
     pi_sensory_base |-> sensory_precision_val,
     pi_prior        |-> prior_precision_val,
     pi_sensory      |-> sensory_precision_val,
     dt              |-> time_step,
     history         |-> <<>>]

\* ActiveInferenceAgent.observe: creates or overwrites the attribute
\* observation
observe(self, sensory_input) ==
    [a \in (DOMAIN self) \cup {"observation"} |->
        IF a = "observation" THEN sensory_input ELSE self[a]]

sensory_pe(self) == self.observation - self.mu

prior_pe(self) == self.mu - self.eta

weighted_sensory(self) == Mul(self.pi_sensory, sensory_pe(self))

\* a prior pull that ignores the prior precision
weighted_prior_unweighted(self) == prior_pe(self)

weighted_prior(self) == Mul(self.pi_prior, prior_pe(self))

mu_dot(self) == weighted_sensory(self) - weighted_prior(self)

\* a step that ascends the gradient instead of descending it
EulerStepAscent(self) == self.mu - Mul(self.dt, mu_dot(self))

\* a step that clamps the belief to [0, 1], as trauma_agent.py does
EulerStepClamped(self) ==
    LET new_mu == self.mu + Mul(self.dt, mu_dot(self))
    IN  IF new_mu < 0 THEN 0 ELSE IF new_mu > Unit THEN Unit ELSE new_mu

\* the Euler integration step: self.mu += self.dt * mu_dot
EulerStep(self) == self.mu + Mul(self.dt, mu_dot(self))

\* an entry that records the belief before the update
LogEntryBeforeUpdate(self, new_mu) ==
    [mu |-> self.mu, pi_prior |-> self.pi_prior, mu_dot |-> mu_dot(self)]

\* the entry update_belief appends to self.history
LogEntry(self, new_mu) ==
    [mu |-> new_mu, pi_prior |-> self.pi_prior, mu_dot |-> mu_dot(self)]

\* ActiveInferenceAgent.update_belief, for an instance that has the
\* attribute observation
update_belief(self) ==
    LET new_mu == EulerStep(self)
    IN  [self EXCEPT !.mu = new_mu,
                     !.history = Append(@, LogEntry(self, new_mu))]

\* an induce_trauma that also re-anchors the prior mean at the belief
induce_trauma_reanchored(self) ==
    [self EXCEPT !.pi_prior = Rat(10000, 1), !.dt = Rat(5, 100000),
                 !.eta = self.mu]

\* ActiveInferenceAgent.induce_trauma
induce_trauma(self) ==
    [self EXCEPT !.pi_prior = Rat(10000, 1), !.dt = Rat(5, 100000)]

\* an apply_annealing that does not raise the sensory precision
apply_annealing_no_gain(self, beta) ==
    [self EXCEPT !.pi_prior = RatDiv(self.pi_prior_base, beta),
                 !.dt = Rat(1, 100)]

\* an apply_annealing that does not restore the time step
apply_annealing_keeps_dt(self, beta) ==
    [self EXCEPT !.pi_prior = RatDiv(self.pi_prior_base, beta),
                 !.pi_sensory = RatMul(self.pi_sensory_base, Rat(5, 1))]

\* ActiveInferenceAgent.apply_annealing, for beta # 0
apply_annealing(self, beta) ==
    [self EXCEPT !.pi_prior = RatDiv(self.pi_prior_base, beta),
                 !.pi_sensory = RatMul(self.pi_sensory_base, Rat(5, 1)),
                 !.dt = Rat(1, 100)]

\* the products of one update_belief call can be formed
CanUpdate(self) ==
    /\ Fits(self.pi_sensory, sensory_pe(self))
    /\ Fits(self.pi_prior, prior_pe(self))
    /\ Fits(self.dt, mu_dot(self))

(***************************************************************************)
(* src/src/trauma_agent.py                                                 *)
(***************************************************************************)
\* ActiveInferenceAgent.__init__ of trauma_agent.py
trauma__init__(mu_prior, pi_prior, pi_likelihood, dt_normal, dt_trauma) ==
    [mu            |-> mu_prior,
     mu_prior      |-> mu_prior,
     pi_prior      |-> pi_prior,
     pi_likelihood |-> pi_likelihood,
     dt_normal     |-> dt_normal,
     dt_trauma     |-> dt_trauma]

prediction_error(self, observation) == observation - self.mu

prior_divergence(self) == self.mu - self.mu_prior

\* ActiveInferenceAgent.free_energy_gradient
free_energy_gradient(self, observation) ==
    Mul(self.pi_likelihood, -2 * prediction_error(self, observation))
        + Mul(self.pi_prior, 2 * prior_divergence(self))

\* np.clip(x, lo, hi)
clip(x, lo, hi) == IF x < lo THEN lo ELSE IF x > hi THEN hi ELSE x

\* the time step update_belief selects once, before its loop
SelectDt(self) ==
    IF RatLess(Rat(100, 1), self.pi_prior) THEN self.dt_trauma
    ELSE self.dt_normal

\* one iteration of the loop of update_belief
GradientStep(self, observation, dt) ==
    [self EXCEPT !.mu =
        clip(self.mu - Mul(dt, free_energy_gradient(self, observation)),
             0, Unit)]

\* the loop of update_belief: steps iterations with the time step dt
\* (the iterations are composed by halves, which keeps the evaluation of a
\* long loop shallow; the result is that of steps successive iterations)
RECURSIVE Iterate(_, _, _, _)
Iterate(self, observation, dt, steps) ==
    IF steps = 0 THEN self
    ELSE IF steps = 1 THEN GradientStep(self, observation, dt)
    ELSE CHOOSE r \in
            {Iterate(mid, observation, dt, steps - steps \div 2) :
                mid \in {Iterate(self, observation, dt, steps \div 2)}} : TRUE

\* ActiveInferenceAgent.update_belief of trauma_agent.py
trauma_update_belief(self, observation, steps) ==
    Iterate(self, observation, SelectDt(self), steps)

\* ActiveInferenceAgent.induce_trauma of trauma_agent.py (the print is
\* console output only)
trauma_induce_trauma(self, pi_trauma) == [self EXCEPT !.pi_prior = pi_trauma]

\* ActiveInferenceAgent.therapeutic_annealing (the print is console output
\* only)
therapeutic_annealing(self, pi_target) == [self EXCEPT !.pi_prior = pi_target]

\* the products of one iteration can be formed
CanStep(self, observation, dt) ==
    /\ Fits(self.pi_likelihood, -2 * prediction_error(self, observation))
    /\ Fits(self.pi_prior, 2 * prior_divergence(self))
    /\ Fits(dt, free_energy_gradient(self, observation))

\* the products of every iteration of one update_belief call can be formed
RECURSIVE CanIterate(_, _, _, _)
CanIterate(self, observation, dt, steps) ==
    IF steps = 0 THEN TRUE
    ELSE IF steps = 1 THEN CanStep(self, observation, dt)
    ELSE IF ~CanIterate(self, observation, dt, steps \div 2) THEN FALSE
    ELSE \A mid \in {Iterate(self, observation, dt, steps \div 2)} :
            CanIterate(mid, observation, dt, steps - steps \div 2)

(***************************************************************************)
(* Inputs of the free harness.                                             *)
(***************************************************************************)
PriorMeans == {0, Dec(9, 10)}

Precisions == {Rat(-1, 1), Rat(0, 1), Rat(1, 1), Rat(10, 1), Rat(10000, 1)}

SensoryPrecisions == {Rat(-1, 1), Rat(0, 1), Rat(1, 1), Rat(2, 1)}

TimeSteps == {Rat(0, 1), Rat(1, 1000), Rat(1, 1)}

Observations == {0, Dec(1, 2), Unit}

Betas == {Rat(0, 1), Rat(50, 1), Rat(100, 1), Rat(500, 1)}

DtNormals == {Rat(0, 1), Rat(1, 100)}

DtTraumas == {Rat(5, 100000)}

PiTraumas == {Rat(100, 1), Rat(10000, 1)}

PiTargets == {Rat(1, 1)}

StepCounts == 1 .. MaxSteps

(***************************************************************************)
(* Operations on the kernel agent.                                         *)
(***************************************************************************)
Construct(prior_mean, prior_precision_val, sensory_precision_val, time_step) ==
    /\ module = "none"
    /\ module' = "kernel"
    /\ agent' = __init__(prior_mean, prior_precision_val,
                         sensory_precision_val, time_step)
    /\ call' = [op |-> "__init__",
                args |-> <<prior_mean, prior_precision_val,
                           sensory_precision_val, time_step>>]
    /\ ret' = Returned(None)
    /\ UNCHANGED updates

Observe(sensory_input) ==
    /\ module = "kernel"
    /\ agent' = observe(agent, sensory_input)
    /\ call' = [op |-> "observe", args |-> <<sensory_input>>]
    /\ ret' = Returned(None)
    /\ UNCHANGED <<module, updates>>

\* update_belief raises AttributeError at its first statement when observe
\* was never called: self.observation does not exist
UpdateBelief ==
    /\ module = "kernel"
    /\ call' = [op |-> "update_belief", args |-> <<>>]
    /\ IF "observation" \in DOMAIN agent
       THEN /\ CanUpdate(agent)
            /\ agent' = update_belief(agent)
            /\ ret' = Returned(<<agent'.mu>>)
            /\ updates' = updates + 1
       ELSE /\ ret' = Raised("AttributeError")
            /\ UNCHANGED <<agent, updates>>
    /\ UNCHANGED module

InduceTrauma ==
    /\ module = "kernel"
    /\ agent' = induce_trauma(agent)
    /\ call' = [op |-> "induce_trauma", args |-> <<>>]
    /\ ret' = Returned(None)
    /\ UNCHANGED <<module, updates>>

\* apply_annealing raises ZeroDivisionError at its first statement for
\* beta = 0, before any attribute is assigned
ApplyAnnealing(beta) ==
    /\ module = "kernel"
    /\ call' = [op |-> "apply_annealing", args |-> <<beta>>]
    /\ IF beta.n # 0
       THEN /\ agent' = apply_annealing(agent, beta)
            /\ ret' = Returned(None)
       ELSE /\ ret' = Raised("ZeroDivisionError")
            /\ UNCHANGED agent
    /\ UNCHANGED <<module, updates>>

(***************************************************************************)
(* Operations on the trauma agent.                                         *)
(***************************************************************************)
TraumaConstruct(mu_prior, pi_prior, pi_likelihood, dt_normal, dt_trauma) ==
    /\ module = "none"
    /\ module' = "trauma"
    /\ agent' = trauma__init__(mu_prior, pi_prior, pi_likelihood, dt_normal,
                               dt_trauma)
    /\ call' = [op |-> "__init__",
                args |-> <<mu_prior, pi_prior, pi_likelihood, dt_normal,
                           dt_trauma>>]
    /\ ret' = Returned(None)
    /\ UNCHANGED updates

\* update_belief of trauma_agent.py has no return statement
TraumaUpdateBelief(observation, steps) ==
    /\ module = "trauma"
    /\ CanIterate(agent, observation, SelectDt(agent), steps)
    /\ agent' = trauma_update_belief(agent, observation, steps)
    /\ call' = [op |-> "update_belief", args |-> <<observation, steps>>]
    /\ ret' = Returned(None)
    /\ updates' = updates + 1
    /\ UNCHANGED module

TraumaInduceTrauma(pi_trauma) ==
    /\ module = "trauma"
    /\ agent' = trauma_induce_trauma(agent, pi_trauma)
    /\ call' = [op |-> "induce_trauma", args |-> <<pi_trauma>>]
    /\ ret' = Returned(None)
    /\ UNCHANGED <<module, updates>>

TherapeuticAnnealing(pi_target) ==
    /\ module = "trauma"
    /\ agent' = therapeutic_annealing(agent, pi_target)
    /\ call' = [op |-> "therapeutic_annealing", args |-> <<pi_target>>]
    /\ ret' = Returned(None)
    /\ UNCHANGED <<module, updates>>

(***************************************************************************)
(* The free harness: any caller, any order of operations.                  *)
(***************************************************************************)
Init ==
    /\ module = "none"
    /\ agent = <<>>
    /\ call = [op |-> "none", args |-> <<>>]
    /\ ret = Returned(None)
    /\ updates = 0

\* a run ends with its MaxUpdates-th update call
Running == updates < MaxUpdates

Next ==
    \/ \E m \in PriorMeans, p \in Precisions, s \in SensoryPrecisions,
          t \in TimeSteps : Construct(m, p, s, t)
    \/ \E o \in Observations : Running /\ Observe(o)
    \/ Running /\ UpdateBelief
    \/ Running /\ InduceTrauma
    \/ \E b \in Betas : Running /\ ApplyAnnealing(b)
    \/ \E m \in PriorMeans, p \in Precisions, l \in SensoryPrecisions,
          n \in DtNormals, t \in DtTraumas : TraumaConstruct(m, p, l, n, t)
    \/ \E o \in Observations, k \in StepCounts :
          Running /\ TraumaUpdateBelief(o, k)
    \/ \E p \in PiTraumas : Running /\ TraumaInduceTrauma(p)
    \/ \E p \in PiTargets : Running /\ TherapeuticAnnealing(p)

Spec == Init /\ [][Next]_vars

(***************************************************************************)
(* The scenario driver.  On trauma_agent.py it is the locked phase of      *)
(* demonstrate_trauma_trap: construct, induce_trauma(10000.0), then        *)
(* TraumaRounds calls of update_belief with steps = TraumaSteps, which is  *)
(* ScenarioSteps integration steps in all.  On active_inference_agent.py   *)
(* it is the sequence of calls of the __main__ block (construct,           *)
(* induce_trauma, a loop of observe and update_belief, apply_annealing, a  *)
(* second loop of observe and update_belief), with the arguments of the    *)
(* locked and annealed scenarios (prior mean 0.9, base prior precision 5,  *)
(* sensory precision 1, beta 5) and ScenarioSteps iterations of each loop, *)
(* the first with any constant observation, the second with observation    *)
(* 0.0.  One step of the driver on the kernel agent is a round of at most  *)
(* RoundSteps iterations of its loop.  The position of the driver is the   *)
(* last call and the number of completed update calls.                     *)
(***************************************************************************)
TraumaRounds == 5

TraumaSteps == 1000

ScenarioSteps == TraumaRounds * TraumaSteps

Min(a, b) == IF a < b THEN a ELSE b

\* n iterations of the driver loop: observe(o); update_belief() (composed
\* by halves, as Iterate)
RECURSIVE Run(_, _, _)
Run(self, o, n) ==
    IF n = 0 THEN self
    ELSE IF n = 1 THEN update_belief(observe(self, o))
    ELSE CHOOSE r \in
            {Run(mid, o, n - n \div 2) : mid \in {Run(self, o, n \div 2)}} :
            TRUE

\* the products of every update_belief call of the round can be formed
RECURSIVE CanRun(_, _, _)
CanRun(self, o, n) ==
    IF n = 0 THEN TRUE
    ELSE IF n = 1 THEN CanUpdate(observe(self, o))
    ELSE IF ~CanRun(self, o, n \div 2) THEN FALSE
    ELSE \A mid \in {Run(self, o, n \div 2)} : CanRun(mid, o, n - n \div 2)

DriverBuild ==
    \/ Construct(Dec(9, 10), Rat(5, 1), Rat(1, 1), Rat(1, 1000))
    \/ TraumaConstruct(Dec(9, 10), Rat(10000, 1), Rat(1, 1), Rat(1, 100),
                       Rat(5, 100000))

DriverInduce ==
    /\ call.op = "__init__"
    /\ \/ InduceTrauma
       \/ TraumaInduceTrauma(Rat(10000, 1))

\* a round of the locked phase (updates < ScenarioSteps) or of the annealed
\* phase of the kernel driver
DriverRound(o) ==
    /\ module = "kernel"
    /\ \/ /\ call.op = "induce_trauma"
       \/ /\ call.op = "update_belief"
          /\ updates < ScenarioSteps
          /\ agent.observation = o
       \/ /\ call.op = "apply_annealing"
          /\ o = 0
       \/ /\ call.op = "update_belief"
          /\ updates > ScenarioSteps
          /\ updates < 2 * ScenarioSteps
          /\ o = 0
    /\ LET phase_end == IF updates < ScenarioSteps THEN ScenarioSteps
                        ELSE 2 * ScenarioSteps
           n == Min(RoundSteps, phase_end - updates)
       IN  /\ CanRun(agent, o, n)
           /\ agent' = Run(agent, o, n)
           /\ updates' = updates + n
    /\ call' = [op |-> "update_belief", args |-> <<>>]
    /\ ret' = Returned(<<agent'.mu>>)
    /\ UNCHANGED module

DriverAnneal ==
    /\ call.op = "update_belief"
    /\ updates = ScenarioSteps
    /\ ApplyAnnealing(Rat(5, 1))

DriverTraumaRound(o) ==
    /\ module = "trauma"
    /\ \/ call.op = "induce_trauma"
       \/ /\ call.op = "update_belief"
          /\ call.args[1] = o
    /\ updates < TraumaRounds
    /\ TraumaUpdateBelief(o, TraumaSteps)

DriverNext ==
    \/ DriverBuild
    \/ DriverInduce
    \/ \E o \in Observations : DriverRound(o)
    \/ DriverAnneal
    \/ \E o \in Observations : DriverTraumaRound(o)

DriverSpec == Init /\ [][DriverNext]_vars

(***************************************************************************)
(* Notions the properties are stated with.                                 *)
(***************************************************************************)
\* the prior precision plus the sensory precision of the kernel agent
PrecisionSum(self) == RatAdd(self.pi_prior, self.pi_sensory)

\* the stability rule dt * (pi_prior + pi_sensory) < 2 of the kernel agent
Stable(self) == RatLess(RatMul(self.dt, PrecisionSum(self)), Rat(2, 1))

\* the arguments of a constructor call are invalid: a time step <= 0 or a
\* negative precision
InvalidArgs(m, args) ==
    \/ args[2].n < 0
    \/ args[3].n < 0
    \/ args[4].n <= 0
    \/ (m = "trauma" /\ args[5].n <= 0)

(***************************************************************************)
(* C1.  Constructing an integrator with step_size <= 0 or with a negative  *)
(* precision fails with InvalidParameter; construction succeeds only when  *)
(* step_size > 0 and both precisions are >= 0.                             *)
(***************************************************************************)
C1_ConstructionValidates ==
    call.op = "__init__" =>
        IF InvalidArgs(module, call.args)
        THEN ret.exc = "InvalidParameter"
        ELSE ret.exc = "none"

(***************************************************************************)
(* C7.  update has no error conditions: in every reachable state and for   *)
(* every order of operations update_belief completes without raising and   *)
(* returns the updated belief value.                                       *)
(***************************************************************************)
C7_UpdateNeverRaises ==
    call.op = "update_belief" =>
        /\ ret.exc = "none"
        /\ ret.value = <<agent.mu>>

(***************************************************************************)
(* C9.  apply_annealing(beta) reduces the prior precision to the prior     *)
(* precision in effect before the call divided by beta: after              *)
(* induce_trauma() set pi_prior = 10000, apply_annealing(500) leaves       *)
(* pi_prior = 20.                                                          *)
(***************************************************************************)
C9_AnnealingDividesCurrentPrecision ==
    [][(/\ call'.op = "apply_annealing"
        /\ ret'.exc = "none"
        /\ agent.pi_prior_base.n >= 0
        /\ agent.pi_sensory_base.n >= 0) =>
          agent'.pi_prior = RatDiv(agent.pi_prior, call'.args[1])]_vars

(***************************************************************************)
(* C8.  prior_mean is fixed at construction: the constructor sets the      *)
(* prior mean (eta, resp. mu_prior) and the initial belief to its          *)
(* argument, and no later observe, update_belief, induce_trauma or         *)
(* annealing call changes the prior mean.                                  *)
(***************************************************************************)
PriorMeanOf(m, self) == IF m = "kernel" THEN self.eta ELSE self.mu_prior

C8_PriorMeanFixed ==
    [][IF call'.op = "__init__"
       THEN /\ PriorMeanOf(module', agent') = call'.args[1]
            /\ agent'.mu = call'.args[1]
       ELSE PriorMeanOf(module', agent') = PriorMeanOf(module, agent)]_vars

C8_Witness ==
    /\ module # "none"
    /\ updates >= 1
    /\ call.op \in {"apply_annealing", "therapeutic_annealing"}
    /\ ret.exc = "none"
    /\ agent.mu # PriorMeanOf(module, agent)
    /\ PriorMeanOf(module, agent) = Dec(9, 10)

(***************************************************************************)
(* C10.  The history is an append-only log with exactly one entry per      *)
(* update call: its length equals the number of completed update_belief    *)
(* calls, earlier entries are never altered or removed, observe,           *)
(* induce_trauma and apply_annealing leave it unchanged, and the entry an   *)
(* update appends records the post-update belief.                          *)
(***************************************************************************)
IsPrefix(s, t) == Len(s) <= Len(t) /\ SubSeq(t, 1, Len(s)) = s

C10_HistoryAppendOnly ==
    [][module' = "kernel" =>
          /\ Len(agent'.history) = updates'
          /\ module = "kernel" => IsPrefix(agent.history, agent'.history)
          /\ call'.op \in {"observe", "induce_trauma", "apply_annealing"} =>
                agent'.history = agent.history
          /\ (call'.op = "update_belief" /\ ret'.exc = "none") =>
                /\ Len(agent'.history) = Len(agent.history) + 1
                /\ agent'.history[Len(agent'.history)].mu = agent'.mu
          /\ (call'.op = "update_belief" /\ ret'.exc # "none") =>
                agent'.history = agent.history]_vars

C10_Witness ==
    /\ module = "kernel"
    /\ Len(agent.history) >= 2
    /\ agent.history[1].mu # agent.history[2].mu
    /\ agent.history[2].mu = agent.mu
    /\ call.op = "update_belief"
    /\ ret.exc = "none"

(***************************************************************************)
(* C6.  Every regime operation leaves the kernel integrator numerically    *)
(* stable: for non-negative constructor precisions, after induce_trauma()  *)
(* and after apply_annealing(beta) with beta > 0 the parameters satisfy    *)
(* dt * (pi_prior + pi_sensory) < 2.                                       *)
(***************************************************************************)
C6_RegimeOperationsStable ==
    [][(/\ call'.op \in {"induce_trauma", "apply_annealing"}
        /\ module = "kernel"
        /\ ret'.exc = "none"
        /\ agent.pi_prior_base.n >= 0
        /\ agent.pi_sensory_base.n >= 0) => Stable(agent')]_vars

\* C6 as amended: induce_trauma leaves the integrator stable whenever the
\* sensory precision is below 30000, and apply_annealing(beta) leaves it
\* stable exactly when pi_prior_base / beta + 5 * pi_sensory_base < 200.
C6_RegimeStabilityCondition ==
    [][(module = "kernel" /\ ret'.exc = "none") =>
          /\ call'.op = "induce_trauma" =>
                (RatLess(agent.pi_sensory, Rat(30000, 1)) => Stable(agent'))
          /\ call'.op = "apply_annealing" =>
                (Stable(agent') <=>
                    RatLess(RatAdd(RatDiv(agent.pi_prior_base, call'.args[1]),
                                   RatMul(Rat(5, 1), agent.pi_sensory_base)),
                            Rat(200, 1)))]_vars

C6_Witness ==
    /\ module = "kernel"
    /\ call.op = "apply_annealing"
    /\ ret.exc = "none"
    /\ agent.pi_prior_base.n > 0
    /\ agent.pi_sensory_base.n > 0
    /\ ~Stable(agent)

(***************************************************************************)
(* C2.  Locked regime: with prior_mean = 0.9, prior_precision = 10000,     *)
(* sensory_precision = 1 and step_size = 5e-5 (the state after             *)
(* induce_trauma), starting from belief = prior_mean and updating with a   *)
(* constant observation in [0, 1], the belief after 5000 update steps (and *)
(* after every smaller number of steps) is within 0.001 of 0.9.            *)
(***************************************************************************)
LockedPhase ==
    \/ /\ module = "kernel"
       /\ call.op \in {"induce_trauma", "update_belief"}
       /\ updates <= ScenarioSteps
    \/ /\ module = "trauma"
       /\ call.op \in {"induce_trauma", "update_belief"}

LockedParameters ==
    IF module = "kernel"
    THEN /\ agent.eta = Dec(9, 10)
         /\ agent.pi_prior = Rat(10000, 1)
         /\ agent.pi_sensory = Rat(1, 1)
         /\ agent.dt = Rat(5, 100000)
    ELSE /\ agent.mu_prior = Dec(9, 10)
         /\ agent.pi_prior = Rat(10000, 1)
         /\ agent.pi_likelihood = Rat(1, 1)
         /\ SelectDt(agent) = Rat(5, 100000)

NearPriorMean(mu) == Abs(mu - Dec(9, 10)) <= Dec(1, 1000)

C2_LockedRegime ==
    LockedPhase =>
        /\ ret.exc = "none"
        /\ LockedParameters
        /\ NearPriorMean(agent.mu)
        /\ module = "kernel" =>
              \A i \in 1 .. Len(agent.history) :
                  NearPriorMean(agent.history[i].mu)

C2_Witness ==
    /\ module = "kernel"
    /\ call.op = "update_belief"
    /\ updates = ScenarioSteps
    /\ Len(agent.history) = ScenarioSteps
    /\ agent.observation = 0
    /\ agent.mu < agent.eta

(***************************************************************************)
(* C3.  Annealing recovery: for the locked agent with prior_mean = 0.9,    *)
(* after apply_annealing(5) set prior_precision = 1, sensory_precision = 5 *)
(* and step_size = 0.01, 5000 update steps with the observation fixed at   *)
(* 0.0 move the belief monotonically toward the observation and leave the  *)
(* final belief within 0.01 of 0.0.                                        *)
(***************************************************************************)
FinalAnnealed ==
    /\ module = "kernel"
    /\ call.op = "update_belief"
    /\ updates = 2 * ScenarioSteps

AnnealedParameters ==
    /\ agent.eta = Dec(9, 10)
    /\ agent.pi_prior = Rat(1, 1)
    /\ agent.pi_sensory = Rat(5, 1)
    /\ agent.dt = Rat(1, 100)
    /\ agent.observation = 0

\* the beliefs logged after the annealing never move away from the
\* observation and never pass it
MonotoneTowardObservation ==
    \A i \in (ScenarioSteps + 1) .. (2 * ScenarioSteps) :
        /\ agent.history[i].mu <= agent.history[i - 1].mu
        /\ agent.history[i].mu >= agent.observation

C3_AnnealingReachesObservation ==
    FinalAnnealed =>
        /\ AnnealedParameters
        /\ MonotoneTowardObservation
        /\ Abs(agent.mu - 0) <= Dec(1, 100)

\* C3 as amended: the belief moves monotonically toward the observation
\* and ends within 0.01 of the equilibrium 0.15 = (5 * 0.0 + 1 * 0.9) / 6,
\* not within 0.01 of the observation 0.0.
C3_AnnealingReachesEquilibrium ==
    FinalAnnealed =>
        /\ AnnealedParameters
        /\ MonotoneTowardObservation
        /\ Abs(agent.mu - Dec(15, 100)) <= Dec(1, 100)

C3_Witness ==
    /\ FinalAnnealed
    /\ Len(agent.history) = 2 * ScenarioSteps
    /\ agent.history[ScenarioSteps].mu > Dec(89, 100)
    /\ agent.mu < Dec(16, 100)
    /\ agent.mu > Dec(14, 100)

(***************************************************************************)
(* The equilibrium of an update, for the agent self before the call and    *)
(* the observation o the call uses.                                        *)
(***************************************************************************)
\* the call made by this step is an update_belief that returned
UpdateStep == call'.op = "update_belief" /\ ret'.exc = "none"

\* the observation the update_belief call of this step uses
StepObservation ==
    IF module = "kernel" THEN agent.observation ELSE call'.args[1]

SensoryOf(m, self) ==
    IF m = "kernel" THEN self.pi_sensory ELSE self.pi_likelihood

\* the step size of the next update
StepSizeOf(m, self) == IF m = "kernel" THEN self.dt ELSE SelectDt(self)

\* step_size * (prior_precision + sensory_precision)
Gain(m, self) ==
    RatMul(StepSizeOf(m, self), RatAdd(self.pi_prior, SensoryOf(m, self)))

\* the same with the step the update really takes: the gradient of
\* trauma_agent.py is twice that of the kernel
EffectiveGain(m, self) ==
    IF m = "kernel" THEN Gain(m, self)
    ELSE RatMul(Rat(2, 1), Gain(m, self))

\* belief* = EqNum / EqDen, in units of 1 / Unit
EqDen(m, self) ==
    SensoryOf(m, self).n * self.pi_prior.d
        + self.pi_prior.n * SensoryOf(m, self).d

EqNum(m, self, o) ==
    SensoryOf(m, self).n * self.pi_prior.d * o
        + self.pi_prior.n * SensoryOf(m, self).d * PriorMeanOf(m, self)

\* |b - num / den| for den > 0, as <<i, f>>: i + f / den with 0 <= f < den
DistTo(b, num, den) ==
    LET q == num \div den
        r == num % den
        e == b - q
    IN  IF r = 0 THEN <<Abs(e), 0>>
        ELSE IF e >= 1 THEN <<e - 1, den - r>>
        ELSE <<-e, r>>

\* |b - belief*|, for EqDen # 0
Dist(b, m, self, o) ==
    IF EqDen(m, self) > 0
    THEN DistTo(b, EqNum(m, self, o), EqDen(m, self))
    ELSE DistTo(b, -EqNum(m, self, o), -EqDen(m, self))

DistLess(x, y) == x[1] < y[1] \/ (x[1] = y[1] /\ x[2] < y[2])

AtEquilibrium(b, m, self, o) ==
    EqDen(m, self) # 0 /\ Dist(b, m, self, o) = <<0, 0>>

\* the parameters satisfy the invariants of the data model: a step size
\* > 0 and precisions >= 0
DataModelInvariants(m, self) ==
    /\ StepSizeOf(m, self).n > 0
    /\ self.pi_prior.n >= 0
    /\ SensoryOf(m, self).n >= 0

\* they do, and the precisions are not both zero
ValidParameters(m, self) ==
    /\ DataModelInvariants(m, self)
    /\ EqDen(m, self) > 0

\* the rounding error of one update, in units of 1 / Unit
RoundingSlack == 1

\* belief - belief* is at least RoundingSlack / rate, for a rational rate > 0
FarEnough(b, m, self, o, rate) ==
    Dist(b, m, self, o)[1] >= (RoundingSlack * rate.d) \div rate.n + 1

RatSub(p, q) == RatAdd(p, [n |-> -q.n, d |-> q.d])

\* min(g, 2 - g)
ContractionRate(g) == IF g.n <= g.d THEN g ELSE RatSub(Rat(2, 1), g)

C5_UpdateDiverges ==
    [][(/\ UpdateStep
        /\ DataModelInvariants(module, agent)
        /\ RatLeq(Rat(2, 1), Gain(module, agent))) =>
          /\ agent'.mu # agent.mu
          /\ EqDen(module, agent) # 0 =>
                ~DistLess(Dist(agent'.mu, module, agent, StepObservation),
                          Dist(agent.mu, module, agent, StepObservation))]_vars

\* C5 as amended: in active_inference_agent.py, which does not clamp, for a
\* step size > 0 and non-negative precisions, whenever g = step_size *
\* (prior_precision + sensory_precision) >= 2 an update never brings the
\* belief nearer to belief* by more than the rounding error, and for g > 2
\* it moves a belief farther from belief* than the rounding error divided
\* by g - 2 strictly farther away; a belief equal to belief* (the initial
\* belief when the observation equals prior_mean or the sensory precision
\* is 0) stays there.  In trauma_agent.py every update clamps the belief to
\* [0, 1], so there the belief cannot grow beyond that interval.
C5_KernelUpdateNeverContracts ==
    [][UpdateStep =>
          /\ module = "trauma" => (agent'.mu >= 0 /\ agent'.mu <= Unit)
          /\ (/\ module = "kernel"
              /\ ValidParameters(module, agent)
              /\ RatLeq(Rat(2, 1), Gain(module, agent))) =>
                LET o == StepObservation
                    g == Gain(module, agent)
                    before == Dist(agent.mu, module, agent, o)
                    after == Dist(agent'.mu, module, agent, o)
                IN  /\ AtEquilibrium(agent.mu, module, agent, o) =>
                          agent'.mu = agent.mu
                    /\ ~DistLess(<<after[1] + RoundingSlack, after[2]>>,
                                 before)
                    /\ (/\ RatLess(Rat(2, 1), g)
                        /\ FarEnough(agent.mu, module, agent, o,
                                     RatSub(g, Rat(2, 1)))) =>
                          DistLess(before, after)]_vars

C5_Witness ==
    /\ module = "kernel"
    /\ call.op = "update_belief"
    /\ ret.exc = "none"
    /\ ValidParameters(module, agent)
    /\ RatLess(Rat(2, 1), Gain(module, agent))
    /\ Len(agent.history) = 2
    /\ agent.history[1].pi_prior = agent.pi_prior
    /\ agent.history[2].pi_prior = agent.pi_prior
    /\ Abs(agent.history[1].mu_dot) > 0
    /\ Abs(agent.history[2].mu_dot) > Abs(agent.history[1].mu_dot)
    /\ Abs(agent.mu - agent.eta) > Unit \div 2

====
